---- MODULE Spec2Model ----
(***************************************************************************)
(* mm-channel-users: one run of main() in src/main.go.                     *)
(*                                                                         *)
(* The run is sequential: flag parsing, environment fallback, parameter    *)
(* validation, team lookup, the paginated listing of the team's public     *)
(* channels, the paginated listing of every channel's members, and one of  *)
(* the two serializers.  The Mattermost server, the process environment    *)
(* and the file system are the environment: every answer they give is      *)
(* drawn from a small set at the step that asks for it.                    *)
(***************************************************************************)
EXTENDS Integers, Sequences, FiniteSets, TLC

VARIABLES
    args,             \* the command line, as flag.Parse() left it
    env,              \* the process environment (os.LookupEnv)
    MattermostURL, MattermostPort, MattermostScheme, MattermostToken,
    DebugFlag,        \* main's flag variables that the fallback overwrites
    debugMode,        \* the package-level debug switch
    pc,               \* where main() stands
    exitCode,         \* the process exit status, -1 while running
    errLog,           \* what was written to stderr (ERROR lines, a panic)
    teamID,           \* main's teamID
    page,             \* the page cursor of the pagination loop in progress
    allChannels,      \* getPublicChannelsForTeam's accumulator
    channels,         \* main's channels
    chanIdx,          \* getUsersInChannels: index of the channel being read
    allUsers,         \* getUsersInChannels's accumulator
    users,            \* main's users
    reqLog,           \* the server's log of the page requests of the listing in
                      \* progress (or, between listings, of the last one)
    memberLog,        \* every membership entry the server has returned
    fileCreated,      \* os.Create succeeded during this run
    buf,              \* lines held by the CSV writer's bufio buffer
    wErr,             \* an OS write of the output failed (bufio's sticky err)
    written,          \* what has reached the output file or stdout
    lineIdx           \* outputCSV: index of the next line (0 is the header)

vars == <<args, env, MattermostURL, MattermostPort, MattermostScheme,
          MattermostToken, DebugFlag, debugMode, pc, exitCode, errLog, teamID,
          page, allChannels, channels, chanIdx, allUsers, users, reqLog,
          memberLog, fileCreated, buf, wErr, written, lineIdx>>

(***************************************************************************)
(* Bounds of the model.                                                    *)
(***************************************************************************)
\* channels the server lists for the team, over all pages
MaxChannels == 2
\* membership entries the server returns during one run, over all channels
MaxMembers == 2
\* lines the CSV writer's buffer holds before it has to write to the OS
BufLines == 2

(***************************************************************************)
(* Program constants.                                                      *)
(***************************************************************************)
defaultPort == "8065"
defaultScheme == "http"
perPage == 50


(***************************************************************************)
(* The environment's universe: command lines, process environments, and    *)
(* what the Mattermost server can answer.                                  *)
(***************************************************************************)
EnvVars == {"MM_URL", "MM_PORT", "MM_SCHEME", "MM_TOKEN", "MM_DEBUG"}

Unset == [exists |-> FALSE, value |-> ""]

SetTo(v) == [exists |-> TRUE, value |-> v]

EmptyEnv == [k \in EnvVars |-> Unset]

FullEnv ==
    [k \in EnvVars |->
        CASE k = "MM_URL" -> SetTo("env.example.com")
          [] k = "MM_PORT" -> SetTo("443")
          [] k = "MM_SCHEME" -> SetTo("https")
          [] k = "MM_TOKEN" -> SetTo("envtoken")
          [] OTHER -> Unset]

DebugEnv == [EmptyEnv EXCEPT !["MM_DEBUG"] = SetTo("true")]

Environments == {EmptyEnv, FullEnv, DebugEnv}

NoConn == [url |-> "", port |-> "", scheme |-> "", token |-> ""]

FlagConn ==
    [url |-> "mm.example.com", port |-> "8443", scheme |-> "https",
     token |-> "flagtoken"]

TokenlessConn == [FlagConn EXCEPT !.token = ""]

CommandLine(conn, team, type, file, bots, debug, version) ==
    [url |-> conn.url, port |-> conn.port, scheme |-> conn.scheme,
     token |-> conn.token, team |-> team, type |-> type, file |-> file,
     includebots |-> bots, debug |-> debug, version |-> version]

\* Command lines that vary the connection settings, under every environment.
ConfigArgs ==
    {CommandLine(c, t, ty, "", FALSE, d, v) :
        c \in {NoConn, FlagConn, TokenlessConn}, t \in {"", "engineering"},
        ty \in {"CSV", "xml"}, d \in BOOLEAN, v \in BOOLEAN}

\* Command lines that vary what the run produces, under an empty environment.
RunArgs ==
    {CommandLine(FlagConn, "engineering", ty, f, b, FALSE, FALSE) :
        ty \in {"CSV", "json"}, f \in {"", "out"}, b \in BOOLEAN}

Scenarios == (ConfigArgs \X Environments) \cup (RunArgs \X {EmptyEnv})

\* strings.ToUpper on the -type values of the command lines above
ToUpper(s) ==
    CASE s = "json" -> "JSON"
      [] s = "xml" -> "XML"
      [] OTHER -> s

\* interface{} values: the dynamic type and the value
StringValue(s) == [type |-> "string", str |-> s]

BoolValue(b) == [type |-> "bool", bool |-> b]

\* func getEnvWithDefault(key string, defaultValue interface{}) interface{}
getEnvWithDefault(key, defaultValue) ==
    IF ~env[key].exists THEN defaultValue ELSE StringValue(env[key].value)

(***************************************************************************)
(* Initial state: flag.Parse() has stored the command line in main's       *)
(* variables; nothing has been requested or written.                       *)
(***************************************************************************)
Init ==
    /\ \E sc \in Scenarios : args = sc[1] /\ env = sc[2]
    /\ MattermostURL = args.url
    /\ MattermostPort = args.port
    /\ MattermostScheme = args.scheme
    /\ MattermostToken = args.token
    /\ DebugFlag = args.debug
    /\ debugMode = FALSE
    /\ pc = "parse"
    /\ exitCode = -1
    /\ errLog = <<>>
    /\ teamID = ""
    /\ page = 0
    /\ allChannels = <<>>
    /\ channels = <<>>
    /\ chanIdx = 0
    /\ allUsers = <<>>
    /\ users = <<>>
    /\ reqLog = <<>>
    /\ memberLog = <<>>
    /\ fileCreated = FALSE
    /\ buf = <<>>
    /\ wErr = FALSE
    /\ written = <<>>
    /\ lineIdx = 0

remoteVars == <<reqLog, memberLog>>

fetchVars == <<teamID, page, allChannels, channels, chanIdx, allUsers, users>>

outVars == <<fileCreated, buf, wErr, written, lineIdx>>

confVars == <<MattermostURL, MattermostPort, MattermostScheme,
              MattermostToken, DebugFlag, debugMode>>

\* os.Exit(code), after the ERROR lines msgs were logged
Exit(code, msgs) ==
    /\ pc' = "exit"
    /\ exitCode' = code
    /\ errLog' = errLog \o msgs

(***************************************************************************)
(* main, lines 354-357: -version prints the version and exits 0.           *)
(***************************************************************************)
ShowVersion ==
    /\ pc = "parse"
    /\ args.version
    /\ Exit(0, <<>>)
    /\ UNCHANGED <<args, env, confVars, fetchVars, remoteVars, outVars>>

\* the value a string setting takes at lines 360-371
Fallback(current, key, default) ==
    IF current = "" THEN getEnvWithDefault(key, StringValue(default)).str
    ELSE current

(***************************************************************************)
(* main, lines 359-376: settings not given on the command line are taken   *)
(* from the environment.  The MM_DEBUG lookup asserts its result to bool:  *)
(* a value found in the environment is a string, and the assertion panics  *)
(* (the Go runtime prints the panic and exits with status 2).              *)
(***************************************************************************)
EnvFallback ==
    /\ pc = "parse"
    /\ ~args.version
    /\ MattermostURL' = Fallback(MattermostURL, "MM_URL", "")
    /\ MattermostPort' = Fallback(MattermostPort, "MM_PORT", defaultPort)
    /\ MattermostScheme' = Fallback(MattermostScheme, "MM_SCHEME", defaultScheme)
    /\ MattermostToken' = Fallback(MattermostToken, "MM_TOKEN", "")
    /\ LET v == getEnvWithDefault("MM_DEBUG", BoolValue(debugMode))
       IN  IF DebugFlag
           THEN /\ UNCHANGED DebugFlag
                /\ debugMode' = DebugFlag
                /\ pc' = "validate"
                /\ UNCHANGED <<exitCode, errLog>>
           ELSE IF v.type = "bool"
           THEN /\ DebugFlag' = v.bool
                /\ debugMode' = v.bool
                /\ pc' = "validate"
                /\ UNCHANGED <<exitCode, errLog>>
           ELSE /\ UNCHANGED <<DebugFlag, debugMode>>
                /\ Exit(2, <<"panic: interface conversion: interface {} is string, not bool">>)
    /\ UNCHANGED <<args, env, fetchVars, remoteVars, outVars>>

\* main, line 410
fileType == ToUpper(args.type)

\* the ERROR lines of the validation at lines 393-414, in order
ValidationErrors ==
    (IF MattermostURL = "" THEN <<"The Mattermost URL must be supplied">> ELSE <<>>)
    \o (IF MattermostScheme = "" THEN <<"The Mattermost HTTP scheme must be supplied">> ELSE <<>>)
    \o (IF MattermostToken = "" THEN <<"The Mattermost auth token must be supplied">> ELSE <<>>)
    \o (IF args.team = "" THEN <<"A Mattermost team name is required">> ELSE <<>>)
    \o (IF fileType # "CSV" /\ fileType # "JSON"
        THEN <<"Output file type can be one of CSV or JSON only.">> ELSE <<>>)

(***************************************************************************)
(* main, lines 390-436: validation of the parameters; exit 1 on any error, *)
(* else the client is prepared and processing starts.                      *)
(***************************************************************************)
ValidateParameters ==
    /\ pc = "validate"
    /\ IF ValidationErrors # <<>>
       THEN Exit(1, ValidationErrors)
       ELSE /\ pc' = "getTeamID"
            /\ UNCHANGED <<exitCode, errLog>>
    /\ UNCHANGED <<args, env, confVars, fetchVars, remoteVars, outVars>>


(***************************************************************************)
(* The Mattermost server.                                                  *)
(***************************************************************************)
\* model.Channel entries the server holds for the team
RemoteChannels ==
    {[Id |-> "c1", Name |-> "general", DisplayName |-> "General"],
     [Id |-> "c2", Name |-> "random", DisplayName |-> "Random"]}

RemoteUser(id, name, bot, deleteAt) ==
    [Id |-> id, Username |-> name, Email |-> name \o "@example.com",
     FirstName |-> name, LastName |-> "Doe", Nickname |-> name,
     IsBot |-> bot, DeleteAt |-> deleteAt]

\* model.User entries: active and deactivated, human and bot
RemoteUsers ==
    {RemoteUser("u1", "alice", FALSE, 0),
     RemoteUser("u2", "bob", TRUE, 0),
     RemoteUser("u3", "carol", FALSE, 1700000000),
     RemoteUser("u4", "dan", TRUE, 1700000000)}

\* the non-empty pages of at most n (and at most perPage) entries of S, no
\* entry twice on a page
Pages(S, n) ==
    UNION {{p \in [1..k -> S] : \A i, j \in 1..k : p[i] = p[j] => i = j} :
           k \in 1..(IF n < perPage THEN n ELSE perPage)}

\* (items, response, err) as the client returns them
TransportError == [err |-> TRUE, status |-> 0, items |-> <<>>]

BadStatus == [err |-> FALSE, status |-> 500, items |-> <<>>]

OkPage(items) == [err |-> FALSE, status |-> 200, items |-> items]

\* what the server may answer to a page request while it has at most n
\* further entries to list
Answers(S, n) ==
    {TransportError, BadStatus, OkPage(<<>>)} \cup {OkPage(p) : p \in Pages(S, n)}

\* the team lookup's answers
TeamAnswers ==
    {TransportError, BadStatus, OkPage(<<[Id |-> "t1", Name |-> args.team]>>)}

\* the server's record of one page request and of its answer
Request(api, id, pg, resp) ==
    [api |-> api, id |-> id, page |-> pg, perPage |-> perPage,
     err |-> resp.err, status |-> resp.status, items |-> resp.items]

\* the log of the listing in progress, with one more request
Logged(api, id, resp) ==
    (IF page = 0 THEN <<>> ELSE reqLog) \o <<Request(api, id, page, resp)>>

\* lines 114-121: the lookup failed (a transport error, a status other than OK)
TeamLookupFailed(resp) == resp.err \/ resp.status # 200

(***************************************************************************)
(* getTeamID (lines 106-126) and main's handling of its error (438-443).   *)
(***************************************************************************)
GetTeamID ==
    /\ pc = "getTeamID"
    /\ \E resp \in TeamAnswers :
          /\ reqLog' = Logged("team", args.team, resp)
          /\ IF TeamLookupFailed(resp)
             THEN /\ Exit(1, <<IF resp.err
                               THEN "Failed to retrieve team ID: transport error"
                               ELSE "Function call to GetTeamByName returned bad HTTP response",
                               "Failed to retrieve team ID.">>)
                  /\ UNCHANGED teamID
             ELSE /\ teamID' = resp.items[1].Id
                  /\ pc' = "getChannels"
                  /\ UNCHANGED <<exitCode, errLog>>
    /\ UNCHANGED <<args, env, confVars, page, allChannels, channels, chanIdx,
                   allUsers, users, memberLog, outVars>>

\* NoMoreEntries of a loop that never breaks
NeverBreak(items) == FALSE

\* lines 150 and 194: the loop ends on a page without entries
NoMoreEntries(items) == Len(items) = 0

\* lines 162 and 221: page++
NextPage(pg) == pg + 1

\* lines 156-159: the Channel made of a model.Channel
Channel(ch) == [ID |-> ch.Id, Name |-> ch.Name]

\* AppendChannels with the page put in front of the accumulator
AppendChannelsInFront(all, chans) ==
    [i \in 1..Len(chans) |-> Channel(chans[i])] \o all

\* lines 155-160: the page's channels are appended to the accumulator
AppendChannels(all, chans) ==
    all \o [i \in 1..Len(chans) |-> Channel(chans[i])]

\* ChannelsFailed without the check of the status
ChannelsFailedErrOnly(resp) == resp.err

\* lines 140-147: the page request failed; nil and the error are returned
ChannelsFailed(resp) == resp.err \/ resp.status # 200

(***************************************************************************)
(* getPublicChannelsForTeam (lines 128-166), one iteration of its loop,    *)
(* and main's handling of the result (447-458).                            *)
(***************************************************************************)
GetPublicChannelsPage ==
    /\ pc = "getChannels"
    /\ \E resp \in Answers(RemoteChannels, MaxChannels - Len(allChannels)) :
          /\ reqLog' = Logged("channels", teamID, resp)
          /\ IF ChannelsFailed(resp)
             THEN /\ Exit(2, <<IF resp.err
                               THEN "Failed to retrieve public channels: transport error"
                               ELSE "Function call to GetPublicChannelsForTeam returned bad HTTP response",
                               "Failed to retrieve public channels for team">>)
                  /\ allChannels' = <<>>
                  /\ UNCHANGED <<page, channels, chanIdx>>
             ELSE IF NoMoreEntries(resp.items)
             THEN /\ channels' = allChannels
                  /\ pc' = "getUsers"
                  /\ chanIdx' = 1
                  /\ page' = 0
                  /\ UNCHANGED <<allChannels, exitCode, errLog>>
             ELSE /\ allChannels' = AppendChannels(allChannels, resp.items)
                  /\ page' = NextPage(page)
                  /\ UNCHANGED <<pc, channels, chanIdx, exitCode, errLog>>
    /\ UNCHANGED <<args, env, confVars, teamID, allUsers, users, memberLog,
                   outVars>>

\* KeepUser without the check of DeleteAt
KeepUserDeactivated(user, includeBots) == ~(user.IsBot /\ ~includeBots)

\* KeepUser with the bot flag read the wrong way round
KeepUserBotsInverted(user, includeBots) ==
    /\ user.DeleteAt = 0
    /\ ~(user.IsBot /\ includeBots)

\* lines 201-208: deactivated accounts are skipped, and bots unless asked for
KeepUser(user, includeBots) ==
    /\ user.DeleteAt = 0
    /\ ~(user.IsBot /\ ~includeBots)

\* lines 210-218: the record emitted for a member of a channel
UserRecord(channel, user) ==
    [ChannelName |-> channel.Name, UserID |-> user.Id,
     Username |-> user.Username, Email |-> user.Email,
     FirstName |-> user.FirstName, LastName |-> user.LastName,
     Nickname |-> user.Nickname]

RECURSIVE AppendUsersOnce(_, _, _, _)
\* AppendUsers that emits a user once, whatever the number of channels
AppendUsersOnce(all, members, channel, includeBots) ==
    IF members = <<>> THEN all
    ELSE AppendUsersOnce(
            IF /\ KeepUser(Head(members), includeBots)
               /\ \A i \in 1..Len(all) : all[i].UserID # Head(members).Id
            THEN Append(all, UserRecord(channel, Head(members)))
            ELSE all,
            Tail(members), channel, includeBots)

RECURSIVE AppendUsers(_, _, _, _)
\* lines 199-219: the loop over one page of members
AppendUsers(all, members, channel, includeBots) ==
    IF members = <<>> THEN all
    ELSE AppendUsers(
            IF KeepUser(Head(members), includeBots)
            THEN Append(all, UserRecord(channel, Head(members)))
            ELSE all,
            Tail(members), channel, includeBots)

\* lines 183-191: the page request failed; nil and the error are returned
UsersFailed(resp) == resp.err \/ resp.status # 200

(***************************************************************************)
(* getUsersInChannels (lines 168-226), one iteration of the inner loop     *)
(* for the channel at chanIdx, and main's handling of an error (460-465).  *)
(***************************************************************************)
GetUsersInChannelPage ==
    /\ pc = "getUsers"
    /\ chanIdx <= Len(channels)
    /\ LET channel == channels[chanIdx]
       IN  \E resp \in Answers(RemoteUsers, MaxMembers - Len(memberLog)) :
              /\ reqLog' = Logged("users", channel.ID, resp)
              /\ IF UsersFailed(resp)
                 THEN /\ Exit(3, <<IF resp.err
                                   THEN "Failed to retrieve users from channel"
                                   ELSE "Function call to GetUsersInChannel returned bad HTTP response",
                                   "Failed to retrieve users">>)
                      /\ allUsers' = <<>>
                      /\ UNCHANGED <<page, chanIdx, memberLog>>
                 ELSE IF NoMoreEntries(resp.items)
                 THEN /\ chanIdx' = chanIdx + 1
                      /\ page' = 0
                      /\ UNCHANGED <<allUsers, memberLog, pc, exitCode, errLog>>
                 ELSE /\ allUsers' = AppendUsers(allUsers, resp.items, channel,
                                                 args.includebots)
                      /\ memberLog' = memberLog \o
                            [i \in 1..Len(resp.items) |->
                                [idx |-> chanIdx, channel |-> channel,
                                 entry |-> resp.items[i]]]
                      /\ page' = NextPage(page)
                      /\ UNCHANGED <<chanIdx, pc, exitCode, errLog>>
    /\ UNCHANGED <<args, env, confVars, teamID, allChannels, channels, users,
                   outVars>>

(***************************************************************************)
(* getUsersInChannels, line 225: every channel was read; main continues    *)
(* with the result.                                                        *)
(***************************************************************************)
GetUsersReturn ==
    /\ pc = "getUsers"
    /\ chanIdx > Len(channels)
    /\ users' = allUsers
    /\ pc' = "output"
    /\ UNCHANGED <<args, env, confVars, teamID, page, allChannels, channels,
                   chanIdx, allUsers, remoteVars, outVars, exitCode, errLog>>

(***************************************************************************)
(* The serializers.  The output is a file created with os.Create, or       *)
(* stdout when -file is empty.  Any OS call may fail.                      *)
(***************************************************************************)
\* line 251
header ==
    <<"ChannelName", "UserID", "Username", "Email", "FirstName", "LastName",
      "Nickname">>

\* lines 258-266
CsvRow(user) ==
    <<user.ChannelName, user.UserID, user.Username, user.Email,
      user.FirstName, user.LastName, user.Nickname>>

\* the line outputCSV writes at position i: the header, then one row per user
CsvLine(i) == IF i = 0 THEN header ELSE CsvRow(users[i])

(***************************************************************************)
(* outputCSV, lines 229-248: the output is opened and the CSV writer made. *)
(* A failed os.Create is logged and returned; main exits 4 (467-472).      *)
(***************************************************************************)
OutputCSVOpen ==
    /\ pc = "output"
    /\ fileType = "CSV"
    /\ \E created \in BOOLEAN :
          IF args.file # "" /\ ~created
          THEN /\ Exit(4, <<"failed to create file", "Error writing CSV">>)
               /\ UNCHANGED <<fileCreated, lineIdx>>
          ELSE /\ fileCreated' = (args.file # "")
               /\ lineIdx' = 0
               /\ pc' = "csvWrite"
               /\ UNCHANGED <<exitCode, errLog>>
    /\ UNCHANGED <<args, env, confVars, fetchVars, remoteVars, buf, wErr,
                   written>>

\* csv.Writer.Write lets the line go to its bufio.Writer; a full buffer is
\* written to the OS first
MustFlush(buffer) == Len(buffer) >= BufLines

(***************************************************************************)
(* outputCSV, lines 250-272: the header or the next row is written.  When  *)
(* the buffer is full it is written to the OS, which may fail: the Write   *)
(* returns the error, outputCSV returns it (the deferred Flush finds the   *)
(* sticky error and writes nothing, the file is closed), main exits 4.     *)
(***************************************************************************)
OutputCSVWrite ==
    /\ pc = "csvWrite"
    /\ lineIdx <= Len(users)
    /\ IF ~MustFlush(buf)
       THEN /\ buf' = Append(buf, CsvLine(lineIdx))
            /\ lineIdx' = lineIdx + 1
            /\ UNCHANGED <<wErr, written, pc, exitCode, errLog>>
       ELSE \E ok \in BOOLEAN :
               IF ok
               THEN /\ written' = written \o buf
                    /\ buf' = <<CsvLine(lineIdx)>>
                    /\ lineIdx' = lineIdx + 1
                    /\ UNCHANGED <<wErr, pc, exitCode, errLog>>
               ELSE /\ wErr' = TRUE
                    /\ UNCHANGED <<buf, written, lineIdx>>
                    /\ Exit(4, (IF lineIdx = 0 THEN <<>>
                                ELSE <<"failed to write CSV row">>)
                               \o <<"Error writing CSV">>)
    /\ UNCHANGED <<args, env, confVars, fetchVars, remoteVars, fileCreated>>

(***************************************************************************)
(* outputCSV, lines 274 and 248, 241: every row was handed to the writer;  *)
(* outputCSV returns nil, the deferred Flush writes the buffer to the OS   *)
(* (csv.Writer.Flush returns nothing, and writer.Error() is not asked),    *)
(* the file is closed; main logs completion and exits 0 (482-484).         *)
(***************************************************************************)
OutputCSVReturn ==
    /\ pc = "csvWrite"
    /\ lineIdx > Len(users)
    /\ \E ok \in BOOLEAN :
          /\ IF wErr \/ buf = <<>>
             THEN UNCHANGED <<buf, wErr, written>>
             ELSE IF ok
             THEN /\ written' = written \o buf
                  /\ buf' = <<>>
                  /\ UNCHANGED wErr
             ELSE /\ wErr' = TRUE
                  /\ UNCHANGED <<buf, written>>
          /\ Exit(0, <<>>)
    /\ UNCHANGED <<args, env, confVars, fetchVars, remoteVars, fileCreated,
                   lineIdx>>

\* the distinct channel names of a record sequence
ChannelNames(us) == {us[i].ChannelName : i \in 1..Len(us)}

\* MapAppend that puts the record in front of its group
MapPrepend(m, user) ==
    [name \in DOMAIN m \cup {user.ChannelName} |->
        IF name = user.ChannelName
        THEN <<user>> \o (IF name \in DOMAIN m THEN m[name] ELSE <<>>)
        ELSE m[name]]

\* line 281: channelMap[user.ChannelName] = append(channelMap[...], user)
MapAppend(m, user) ==
    [name \in DOMAIN m \cup {user.ChannelName} |->
        IF name = user.ChannelName
        THEN Append(IF name \in DOMAIN m THEN m[name] ELSE <<>>, user)
        ELSE m[name]]

RECURSIVE GroupInto(_, _)
\* lines 280-282: the loop over the records, from the map m on
GroupInto(m, us) ==
    IF us = <<>> THEN m ELSE GroupInto(MapAppend(m, Head(us)), Tail(us))

\* lines 279-282: channelMap, the records grouped by channel name
channelMap(us) == GroupInto(<<>>, us)

\* the orders in which a range over a Go map with these keys can visit them
MapOrders(keys) ==
    {o \in [1..Cardinality(keys) -> keys] :
        \A i, j \in 1..Cardinality(keys) : o[i] = o[j] => i = j}

\* lines 285-293: the document, for one iteration order of channelMap
JSONOutput(us, order) ==
    [Channels |->
        [i \in 1..Len(order) |->
            [Channel |-> [ChannelName |-> order[i],
                          Users |-> channelMap(us)[order[i]]]]]]

(***************************************************************************)
(* outputJSON (lines 277-316) and main's handling of its error (474-484):  *)
(* the records are grouped by channel name, the groups are listed in the   *)
(* map's iteration order, the output is opened and the document encoded    *)
(* with one write.                                                         *)
(***************************************************************************)
OutputJSON ==
    /\ pc = "output"
    /\ fileType = "JSON"
    /\ \E order \in MapOrders(DOMAIN channelMap(users)), created \in BOOLEAN,
          ok \in BOOLEAN :
          IF args.file # "" /\ ~created
          THEN /\ Exit(5, <<"Error writing JSON file">>)
               /\ UNCHANGED <<fileCreated, wErr, written>>
          ELSE /\ fileCreated' = (args.file # "")
               /\ IF ok
                  THEN /\ written' = <<JSONOutput(users, order)>>
                       /\ Exit(0, <<>>)
                       /\ UNCHANGED wErr
                  ELSE /\ wErr' = TRUE
                       /\ Exit(5, <<"Error writing JSON file">>)
                       /\ UNCHANGED written
    /\ UNCHANGED <<args, env, confVars, fetchVars, remoteVars, buf, lineIdx>>

Next ==
    \/ ShowVersion
    \/ EnvFallback
    \/ ValidateParameters
    \/ GetTeamID
    \/ GetPublicChannelsPage
    \/ GetUsersInChannelPage
    \/ GetUsersReturn
    \/ OutputCSVOpen
    \/ OutputCSVWrite
    \/ OutputCSVReturn
    \/ OutputJSON

Spec == Init /\ [][Next]_vars

\* The run is one sequential process: a step that can be taken is taken.
FairSpec == Spec /\ WF_vars(Next)

(***************************************************************************)
(* Vocabulary of the properties.                                           *)
(***************************************************************************)
\* the server answered a request with a transport error or a non-OK status
Failed(r) == r.err \/ r.status # 200

\* the server answered a request with an OK page that holds entries
FullPage(r) == ~Failed(r) /\ r.items # <<>>

\* the server answered a request with an OK page that holds nothing
EmptyPage(r) == ~Failed(r) /\ r.items = <<>>

RECURSIVE ItemsOf(_, _)
\* the entries of the first n answers of a log, in arrival order
ItemsOf(log, n) ==
    IF n = 0 THEN <<>> ELSE ItemsOf(log, n - 1) \o log[n].items

\* some request of the listing in progress, or of the last one, failed
FetchFailed == \E i \in 1..Len(reqLog) : Failed(reqLog[i])

\* getUsersInChannels has returned its records to main
CollectDone ==
    \/ pc \in {"output", "csvWrite"}
    \/ pc = "exit" /\ ~args.version /\ exitCode \in {0, 4, 5}

\* the run ended by the panic of the MM_DEBUG type assertion
Panicked == pc = "exit" /\ errLog # <<>> /\ errLog[1] =
    "panic: interface conversion: interface {} is string, not bool"

\* C1: once the server has answered pages 0..k-1 of the channel listing with
\* non-empty OK pages and page k with an empty OK page, the lister has
\* returned exactly the channels of pages 0..k-1 in arrival order, and the
\* requests it issued are exactly k+1, for the pages 0, 1, ..., k in order.
C1_ListerConcatenatesPages ==
    \A n \in 1..Len(reqLog) :
        (/\ reqLog[1].api = "channels"
         /\ EmptyPage(reqLog[n])
         /\ \A i \in 1..(n - 1) : FullPage(reqLog[i]))
        => /\ Len(reqLog) = n
           /\ \A i \in 1..n : /\ reqLog[i].page = i - 1
                              /\ reqLog[i].perPage = 50
                              /\ reqLog[i].id = teamID
           /\ pc # "getChannels"
           /\ LET got == ItemsOf(reqLog, n - 1)
              IN  /\ Len(channels) = Len(got)
                  /\ \A i \in 1..Len(got) :
                        /\ channels[i].ID = got[i].Id
                        /\ channels[i].Name = got[i].Name

C1_Witness ==
    /\ Len(reqLog) = 3
    /\ reqLog[1].api = "channels"
    /\ FullPage(reqLog[1]) /\ FullPage(reqLog[2]) /\ EmptyPage(reqLog[3])
    /\ Len(channels) = 2
    /\ channels[1] # channels[2]

\* a record of the sequence us was built from the membership entry e
BuiltFrom(us, e) ==
    \E i \in 1..Len(us) :
        us[i].ChannelName = e.channel.Name /\ us[i].UserID = e.entry.Id

\* C2: in every state, whatever the channel, the page and the bot flag, the
\* accumulated output holds no record built from a membership entry whose
\* DeleteAt is non-zero.
C2_NoDeactivatedAccount ==
    \A k \in 1..Len(memberLog) :
        memberLog[k].entry.DeleteAt # 0
        => ~BuiltFrom(allUsers, memberLog[k]) /\ ~BuiltFrom(users, memberLog[k])

C2_Witness ==
    /\ args.includebots
    /\ allUsers # <<>>
    /\ \E k \in 1..Len(memberLog) :
          memberLog[k].entry.DeleteAt # 0 /\ memberLog[k].entry.IsBot

\* C3 as stated: after a successful collection, every bot account the server
\* returned as a member of a listed channel has a record in that channel if
\* and only if the bot-inclusion flag is true.
C3_EveryBotIffFlag ==
    CollectDone =>
        \A k \in 1..Len(memberLog) :
            memberLog[k].entry.IsBot
            => (BuiltFrom(users, memberLog[k]) <=> args.includebots)

\* C3 amended: after a successful collection, every bot account that is not
\* deactivated and that the server returned as a member of a listed channel
\* has a record in that channel if and only if the bot-inclusion flag is true.
C3_ActiveBotIffFlag ==
    CollectDone =>
        \A k \in 1..Len(memberLog) :
            (memberLog[k].entry.IsBot /\ memberLog[k].entry.DeleteAt = 0)
            => (BuiltFrom(users, memberLog[k]) <=> args.includebots)

C3_Witness ==
    /\ pc = "exit" /\ exitCode = 0
    /\ args.includebots
    /\ \E k \in 1..Len(memberLog) :
          /\ memberLog[k].entry.IsBot
          /\ memberLog[k].entry.DeleteAt = 0
          /\ BuiltFrom(users, memberLog[k])

\* the membership entries the collector is to emit
Emitted(log) ==
    SelectSeq(log, LAMBDA e :
        /\ e.entry.DeleteAt = 0
        /\ (e.entry.IsBot => args.includebots))

\* C4: after a successful collection, the membership entries were fetched
\* channel after channel in the lister's order, and the output is the
\* sequence of the entries that are not skipped, in arrival order, each as
\* a record with the name of the channel it was fetched for and the entry's
\* personal fields; nothing is deduplicated.
C4_OutputIsFilteredConcatenation ==
    CollectDone =>
        /\ \A i, j \in 1..Len(memberLog) :
              /\ memberLog[i].channel = channels[memberLog[i].idx]
              /\ i < j => memberLog[i].idx <= memberLog[j].idx
        /\ LET kept == Emitted(memberLog)
           IN  /\ Len(users) = Len(kept)
               /\ \A i \in 1..Len(kept) :
                     /\ users[i].ChannelName = kept[i].channel.Name
                     /\ users[i].UserID = kept[i].entry.Id
                     /\ users[i].Username = kept[i].entry.Username
                     /\ users[i].Email = kept[i].entry.Email
                     /\ users[i].FirstName = kept[i].entry.FirstName
                     /\ users[i].LastName = kept[i].entry.LastName
                     /\ users[i].Nickname = kept[i].entry.Nickname

\* an active human user in two channels: two records, equal but for the name
C4_Witness ==
    /\ pc = "exit" /\ exitCode = 0
    /\ Len(users) = 2
    /\ users[1].ChannelName = "general"
    /\ users[2].ChannelName = "random"
    /\ users[1].UserID = "u1"
    /\ [users[2] EXCEPT !.ChannelName = "general"] = users[1]

\* nothing was produced: no file, no output, no records kept
NothingProduced ==
    /\ ~fileCreated
    /\ written = <<>>
    /\ buf = <<>>
    /\ allUsers = <<>>
    /\ users = <<>>

\* C5 as stated: whenever a stage failed (team resolution, channel listing,
\* member collection, or the CSV/JSON write stage), the run has ended with
\* everything accumulated discarded and without an output file.
C5_AnyFailureLeavesNothing ==
    (FetchFailed \/ (pc = "exit" /\ exitCode \in {4, 5}))
    => pc = "exit" /\ NothingProduced

\* C5 amended: whenever team resolution, channel listing or member
\* collection failed, the run has ended at once with a non-zero exit code,
\* the records (and, for a listing failure, the channels) accumulated so far
\* discarded, nothing written and no output file created.
C5_FetchFailureLeavesNothing ==
    FetchFailed =>
        /\ pc = "exit"
        /\ exitCode \in {1, 2, 3}
        /\ NothingProduced
        /\ reqLog[Len(reqLog)].api = "channels"
           => allChannels = <<>> /\ channels = <<>>

C5_Witness ==
    /\ FetchFailed
    /\ reqLog[1].api = "users"
    /\ Len(reqLog) = 2
    /\ memberLog # <<>>
    /\ args.file # ""
    /\ chanIdx = 2

\* the exit code the run is to end with: that of its first failing stage
ExpectedExit ==
    IF ValidationErrors # <<>> THEN 1
    ELSE IF FetchFailed
    THEN (CASE reqLog[1].api = "team" -> 1
            [] reqLog[1].api = "channels" -> 2
            [] OTHER -> 3)
    ELSE IF wErr \/ (args.file # "" /\ ~fileCreated)
    THEN (IF fileType = "CSV" THEN 4 ELSE 5)
    ELSE 0

\* C6 as stated: a run that passed the -version check ends with the exit
\* code of its first failing stage (1 parameters or team resolution,
\* 2 channel listing, 3 member collection, 4 CSV write, 5 JSON write), and
\* with 0 only when every stage, the write of the output included, succeeded.
C6_ExitCodeOfFirstFailure ==
    (pc = "exit" /\ ~args.version) => exitCode = ExpectedExit

\* C7 as stated: outputCSV returns an error (and main exits 4) whenever the
\* creation of the file or a write to the output failed, the write of the
\* final flush included.
C7_CsvWriteFailureIsReturned ==
    (pc = "exit" /\ fileType = "CSV" /\ wErr) => exitCode = 4

\* the index in us of the k-th record of the channel name
KthOf(us, name, k) ==
    CHOOSE i \in 1..Len(us) :
        /\ us[i].ChannelName = name
        /\ Cardinality({j \in 1..i : us[j].ChannelName = name}) = k

\* the groups of the document hold every record once, under its channel name
\* and in input order, one group per distinct channel name
GroupsKeepRecords(doc, us) ==
    LET groups == doc.Channels
        nameOf(i) == groups[i].Channel.ChannelName
    IN  /\ {nameOf(i) : i \in 1..Len(groups)} = ChannelNames(us)
        /\ \A i, j \in 1..Len(groups) : nameOf(i) = nameOf(j) => i = j
        /\ \A i \in 1..Len(groups) :
              LET g == groups[i].Channel.Users
              IN  /\ Len(g) = Cardinality({j \in 1..Len(us) :
                                              us[j].ChannelName = nameOf(i)})
                  /\ \A k \in 1..Len(g) : g[k] = us[KthOf(us, nameOf(i), k)]

\* the groups of the document are in the order in which their names first
\* appear in the records
GroupsInFirstSeenOrder(doc, us) ==
    LET groups == doc.Channels
        first(i) == KthOf(us, groups[i].Channel.ChannelName, 1)
    IN  \A i, j \in 1..Len(groups) : i < j => first(i) < first(j)

\* outputJSON has written its document
JsonWritten == fileType = "JSON" /\ written # <<>>

\* C8 as stated: the JSON document lists the channel groups in the order in
\* which their names first appear in the input, and inside each group the
\* records keep their input order.
C8_GroupsInFirstSeenOrder ==
    JsonWritten =>
        /\ GroupsKeepRecords(written[1], users)
        /\ GroupsInFirstSeenOrder(written[1], users)

\* C8 amended: the JSON document holds one group per distinct channel name
\* of the input, in an order that is not determined, and inside each group
\* the records of that channel in their input order.
C8_GroupsKeepInputOrder ==
    JsonWritten => GroupsKeepRecords(written[1], users)

C8_Witness ==
    /\ JsonWritten
    /\ Len(written[1].Channels) = 2
    /\ users[1].ChannelName = "general"
    /\ written[1].Channels[1].Channel.ChannelName = "random"

\* the setting a run is to use: the command line's value when one is given,
\* else the environment's when it is set, else the default
Effective(given, key, default) ==
    IF given # "" THEN given
    ELSE IF env[key].exists THEN env[key].value
    ELSE default

\* C9 as stated: past the environment fallback, each setting is the command
\* line's value when given, else the environment's when set, else the
\* default; a run without -debug and with MM_DEBUG set reaches the
\* validation of the parameters with debug mode taken from MM_DEBUG.
C9_CommandLineThenEnvironment ==
    (pc # "parse" /\ ~args.version) =>
        /\ MattermostURL = Effective(args.url, "MM_URL", "")
        /\ MattermostPort = Effective(args.port, "MM_PORT", "8065")
        /\ MattermostScheme = Effective(args.scheme, "MM_SCHEME", "http")
        /\ MattermostToken = Effective(args.token, "MM_TOKEN", "")
        /\ ~Panicked
        /\ debugMode = (args.debug \/ (env["MM_DEBUG"].exists
                                       /\ env["MM_DEBUG"].value = "true"))

\* only the last request of a listing was answered by an empty page or failed
StopsAtFirstEnd ==
    \A i \in 1..(Len(reqLog) - 1) : FullPage(reqLog[i])

\* C10: the server answering every listing with an empty page or a failure
\* within the bounds, the run terminates, and no listing is asked for a
\* further page after its first empty page or failure.
C10_RunTerminates == <>(pc = "exit") /\ []StopsAtFirstEnd

C10_Witness ==
    /\ pc = "exit"
    /\ Len(reqLog) = 3
    /\ reqLog[1].api = "users"
    /\ EmptyPage(reqLog[3])
    /\ chanIdx = 2

====
